---- MODULE Spec2Model ----
(***************************************************************************)
(* A model of codeblocktimer.py: the per-thread accessor get(), the        *)
(* CodeBlockTimer (instances, active_instance), the scoped handle          *)
(* CodeBlockTimerCloseable and the span objects _CodeBlockTimerInstance.   *)
(*                                                                         *)
(* Python objects live in three heaps (sequences indexed by object id):    *)
(* timers, heap (the spans) and handles.  An attribute that has never been *)
(* assigned is UNSET, and reading it raises AttributeError; that is        *)
(* different from an attribute holding None (NONE).  Every call is one     *)
(* action; the variable last records the call that was just made and how   *)
(* it ended ("ok" or the name of the exception that left it).              *)
(***************************************************************************)
EXTENDS Integers, Sequences, FiniteSets, TLC

\* -------------------------------------------------------------- bounds
MaxObjects == 4      \* CodeBlockTimer and _CodeBlockTimerInstance objects built
MaxMerges  == 1      \* add_sub_timer calls that change a list

\* the threads of the test: the main thread and the thread it starts
Threads == {"main", "worker"}
Names   == {"a", "b"}

\* ----------------------------------------------------- Python values
\* None, as the value of an attribute that refers to an object id (ids are
\* 1, 2, ...), and the state of an attribute no statement has assigned yet.
NONE  == 0
UNSET == -1

VARIABLES
    timers,     \* Seq of [instances, active_instance]: the CodeBlockTimer objects
    heap,       \* Seq of span records: the _CodeBlockTimerInstance objects
    handles,    \* Seq of [code_block_timer, instance_name]: CodeBlockTimerCloseable
    got,        \* history: got[th], the timers get() returned to thread th, in order
    now,        \* the last reading of time.time(), in milliseconds, rounded
    merges,     \* history: the add_sub_timer calls that changed a list
    last        \* the call just made and its outcome

vars == <<timers, heap, handles, got, now, merges, last>>

TimerIds  == 1..Len(timers)
HandleIds == 1..Len(handles)

\* ids an object can have within the bound
ObjectIds == 1..MaxObjects
Objects   == Len(timers) + Len(heap)

\* The record kept in last: the operation, how it ended, and the span the
\* call created or stopped (NONE when it did neither).
Call(op, outcome, span) ==
    [op |-> op, outcome |-> outcome, span |-> span]

\* The clock: each reading of time.time() that is stored is one millisecond
\* after the reading stored before it.
ClockSteps == {1}

\* ------------------------------------------------- _CodeBlockTimerInstance
\* child_instances is a Python list or None or unassigned: children says
\* which ("unset", "none", "list") and child_instances holds the list.
\* stop_time is UNSET until stop() assigns it.

\* __init__(name, parent_instance) run at clock reading time, on the heap hp.
\* The new object gets the next id.  It raises when the parent's
\* child_instances cannot be appended to; the half-built object is then
\* referenced by nothing and is not kept.
InstanceInit(hp, name, parent_instance, time) ==
    LET self == Len(hp) + 1
        obj  == [name |-> name, parent_instance |-> parent_instance,
                 children |-> "unset", child_instances |-> <<>>,
                 start_time |-> time, stop_time |-> UNSET]
    IN  IF parent_instance = NONE
        THEN [outcome |-> "ok", heap |-> Append(hp, obj), self |-> self]
        ELSE IF hp[parent_instance].children = "list"
        THEN [outcome |-> "ok",
              heap |-> Append([hp EXCEPT ![parent_instance].child_instances =
                                   Append(@, self)], obj),
              self |-> self]
        ELSE [outcome |-> "AttributeError", heap |-> hp, self |-> NONE]

\* stop() as it would be if it returned the instance itself
InstanceStopReturnsSelf(hp, self, time) ==
    [heap |-> [hp EXCEPT ![self].stop_time = time],
     ret  |-> self]

\* stop(): records stop_time and returns the parent instance.
InstanceStop(hp, self, time) ==
    [heap |-> [hp EXCEPT ![self].stop_time = time],
     ret  |-> hp[self].parent_instance]

\* add_child_instance(child)
AddChildInstance(hp, self, child) ==
    IF hp[self].children = "unset"
    THEN [outcome |-> "AttributeError", heap |-> hp]
    ELSE [outcome |-> "ok",
          heap |-> [hp EXCEPT ![self].children = "list",
                              ![self].child_instances = Append(@, child)]]

\* ---------------------------------------------------------- CodeBlockTimer
\* __init__: assigns instances and nothing else.
CodeBlockTimerInit ==
    [instances |-> <<>>, active_instance |-> UNSET]

\* start(name) as a live merge would have it: a new root also joins the
\* roots of every timer that holds one of this timer's roots
TimerStartLive(ts, hp, t, name, time) ==
    IF ts[t].active_instance = UNSET
    THEN [outcome |-> "AttributeError", timers |-> ts, heap |-> hp, span |-> NONE]
    ELSE LET r == InstanceInit(hp, name, ts[t].active_instance, time)
             Shares(u) == \E i \in DOMAIN ts[u].instances :
                            \E j \in DOMAIN ts[t].instances :
                               ts[u].instances[i] = ts[t].instances[j]
         IN  IF r.outcome # "ok"
             THEN [outcome |-> r.outcome, timers |-> ts, heap |-> hp, span |-> NONE]
             ELSE [outcome |-> "ok",
                   timers  |-> [u \in DOMAIN ts |->
                       IF u = t
                       THEN [ts[u] EXCEPT
                               !.instances = IF ts[t].active_instance = NONE
                                             THEN Append(@, r.self) ELSE @,
                               !.active_instance = r.self]
                       ELSE IF ts[t].active_instance = NONE /\ Shares(u)
                       THEN [ts[u] EXCEPT !.instances = Append(@, r.self)]
                       ELSE ts[u]],
                   heap    |-> r.heap,
                   span    |-> r.self]

\* start(name) as it would be were active_instance an attribute of the
\* class, one value for all timers
TimerStartShared(ts, hp, t, name, time) ==
    IF ts[t].active_instance = UNSET
    THEN [outcome |-> "AttributeError", timers |-> ts, heap |-> hp, span |-> NONE]
    ELSE LET r == InstanceInit(hp, name, ts[t].active_instance, time)
         IN  IF r.outcome # "ok"
             THEN [outcome |-> r.outcome, timers |-> ts, heap |-> hp, span |-> NONE]
             ELSE [outcome |-> "ok",
                   timers  |-> [u \in DOMAIN ts |->
                       IF u = t
                       THEN [ts[u] EXCEPT
                               !.instances = IF ts[t].active_instance = NONE
                                             THEN Append(@, r.self) ELSE @,
                               !.active_instance = r.self]
                       ELSE [ts[u] EXCEPT !.active_instance = r.self]],
                   heap    |-> r.heap,
                   span    |-> r.self]

\* start(name) on timer t: the new timers and heap, the outcome, the new span.
TimerStart(ts, hp, t, name, time) ==
    IF ts[t].active_instance = UNSET
    THEN [outcome |-> "AttributeError", timers |-> ts, heap |-> hp, span |-> NONE]
    ELSE LET r == InstanceInit(hp, name, ts[t].active_instance, time)
         IN  IF r.outcome # "ok"
             THEN [outcome |-> r.outcome, timers |-> ts, heap |-> hp, span |-> NONE]
             ELSE [outcome |-> "ok",
                   timers  |-> [ts EXCEPT
                       ![t].instances = IF ts[t].active_instance = NONE
                                        THEN Append(@, r.self) ELSE @,
                       ![t].active_instance = r.self],
                   heap    |-> r.heap,
                   span    |-> r.self]

\* stop(name) as it would be without the comparison of the names
TimerStopAnyName(ts, hp, t, name, time) ==
    IF ts[t].active_instance = UNSET
    THEN [outcome |-> "AttributeError", timers |-> ts, heap |-> hp, span |-> NONE]
    ELSE IF ts[t].active_instance = NONE
    THEN [outcome |-> "ok", timers |-> ts, heap |-> hp, span |-> NONE]
    ELSE LET r == InstanceStop(hp, ts[t].active_instance, time)
         IN  [outcome |-> "ok",
              timers  |-> [ts EXCEPT ![t].active_instance = r.ret],
              heap    |-> r.heap,
              span    |-> ts[t].active_instance]

\* stop(name) on timer t.  span is the span that was stopped.
TimerStop(ts, hp, t, name, time) ==
    IF ts[t].active_instance = UNSET
    THEN [outcome |-> "AttributeError", timers |-> ts, heap |-> hp, span |-> NONE]
    ELSE IF ts[t].active_instance = NONE
    THEN [outcome |-> "ok", timers |-> ts, heap |-> hp, span |-> NONE]
    ELSE IF hp[ts[t].active_instance].name # name
    THEN [outcome |-> "ValueError", timers |-> ts, heap |-> hp, span |-> NONE]
    ELSE LET r == InstanceStop(hp, ts[t].active_instance, time)
         IN  [outcome |-> "ok",
              timers  |-> [ts EXCEPT ![t].active_instance = r.ret],
              heap    |-> r.heap,
              span    |-> ts[t].active_instance]

\* The loop of add_sub_timer: add_child_instance for each instance of the
\* list subs, in order, stopping at the first one that raises.
RECURSIVE AddChildren(_, _, _)
AddChildren(hp, parent, subs) ==
    IF subs = <<>>
    THEN [outcome |-> "ok", heap |-> hp]
    ELSE LET r == AddChildInstance(hp, parent, Head(subs))
         IN  IF r.outcome # "ok" THEN r
             ELSE AddChildren(r.heap, parent, Tail(subs))

\* add_sub_timer, had it taken over the active span of the merged timer
TimerAddSubTimerTakesActive(ts, hp, t, sub) ==
    IF ts[t].active_instance = UNSET
    THEN [outcome |-> "AttributeError", timers |-> ts, heap |-> hp]
    ELSE IF ts[t].active_instance = NONE
    THEN [outcome |-> "ok",
          timers  |-> [ts EXCEPT ![t].instances = @ \o ts[sub].instances,
                                 ![t].active_instance = ts[sub].active_instance],
          heap    |-> hp]
    ELSE LET r == AddChildren(hp, ts[t].active_instance, ts[sub].instances)
         IN  [outcome |-> r.outcome, timers |-> ts, heap |-> r.heap]

\* add_sub_timer(sub_code_block_timer) on timer t, with the timer sub.
TimerAddSubTimer(ts, hp, t, sub) ==
    IF ts[t].active_instance = UNSET
    THEN [outcome |-> "AttributeError", timers |-> ts, heap |-> hp]
    ELSE IF ts[t].active_instance = NONE
    THEN [outcome |-> "ok",
          timers  |-> [ts EXCEPT ![t].instances = @ \o ts[sub].instances],
          heap    |-> hp]
    ELSE LET r == AddChildren(hp, ts[t].active_instance, ts[sub].instances)
         IN  [outcome |-> r.outcome, timers |-> ts, heap |-> r.heap]

\* -------------------------------------------------- CodeBlockTimerCloseable
\* __init__(code_block_timer, instance_name)
CloseableInit(code_block_timer, instance_name) ==
    [code_block_timer |-> code_block_timer, instance_name |-> instance_name]

\* __exit__(exc_type, exc_value, traceback): stop(instance_name) on the
\* handle's timer, whatever the handle did before.
CloseableExit(ts, hp, hs, h, time) ==
    TimerStop(ts, hp, hs[h].code_block_timer, hs[h].instance_name, time)

\* The outcomes of entering "with <handle>:".  The class defines __exit__
\* and no __enter__, so the with statement raises before its body runs and
\* never calls __exit__: TypeError from Python 3.11 on, AttributeError before.
CloseableEnter == {"TypeError", "AttributeError"}

\* ---------------------------------------------------------------- rendering
\* " " * n
RECURSIVE Spaces(_)
Spaces(n) == IF n <= 0 THEN "" ELSE " " \o Spaces(n - 1)

\* __INDENT_SIZE
IndentSize == 2

\* get_duration(): stop_time - start_time; reading a stop_time that was
\* never assigned raises.
GetDuration(hp, self) ==
    IF hp[self].stop_time = UNSET
    THEN [outcome |-> "AttributeError", ret |-> 0]
    ELSE [outcome |-> "ok", ret |-> hp[self].stop_time - hp[self].start_time]

\* _CodeBlockTimerInstance.to_string(indent): the span's own line, then the
\* children, each at indent + 1.  It raises where it reads an attribute that
\* was never assigned: stop_time (through get_duration) and child_instances.
RECURSIVE InstanceToString(_, _, _), ChildrenToString(_, _, _)
InstanceToString(hp, self, indent) ==
    LET pad == IF indent > 0 THEN Spaces(indent * IndentSize) ELSE ""
        dur == GetDuration(hp, self)
        own == pad \o hp[self].name \o ": " \o ToString(dur.ret) \o "\n"
    IN  IF dur.outcome # "ok"
        THEN [outcome |-> dur.outcome, text |-> pad]
        ELSE IF hp[self].children = "unset"
        THEN [outcome |-> "AttributeError", text |-> own]
        ELSE IF hp[self].children = "none"
        THEN [outcome |-> "ok", text |-> own]
        ELSE LET r == ChildrenToString(hp, hp[self].child_instances, indent + 1)
             IN  [outcome |-> r.outcome, text |-> own \o r.text]

\* the loops of both to_string methods: the instances of the list xs in order
ChildrenToString(hp, xs, indent) ==
    IF xs = <<>>
    THEN [outcome |-> "ok", text |-> ""]
    ELSE LET r == InstanceToString(hp, Head(xs), indent)
         IN  IF r.outcome # "ok" THEN r
             ELSE LET rest == ChildrenToString(hp, Tail(xs), indent)
                  IN  [outcome |-> rest.outcome, text |-> r.text \o rest.text]

\* CodeBlockTimer.to_string()
TimerToString(ts, hp, t) == ChildrenToString(hp, ts[t].instances, 0)

\* The record kept in last by a rendering call: text is the string returned
\* (to_string) or written to standard output (print).
Rendered(op, outcome, text) ==
    [op |-> op, outcome |-> outcome, span |-> NONE, text |-> text]

\* ------------------------------------------------------------------ get()
\* threading.local() builds a new, empty thread-local object on every call,
\* so hasattr is false and a new CodeBlockTimer is constructed every time.
GetTimer(ts) ==
    [timers |-> Append(ts, CodeBlockTimerInit), ret |-> Len(ts) + 1]

\* ---------------------------------------------------------------- actions
Init ==
    /\ timers  = <<>>
    /\ heap    = <<>>
    /\ handles = <<>>
    /\ got     = [th \in Threads |-> <<>>]
    /\ now     = 0
    /\ merges  = 0
    /\ last    = Call("init", "ok", NONE)

\* CodeBlockTimer(): a timer constructed directly
Construct ==
    /\ Objects < MaxObjects
    /\ timers' = Append(timers, CodeBlockTimerInit)
    /\ last' = Call("construct", "ok", NONE)
    /\ UNCHANGED <<heap, handles, got, now, merges>>

\* thread th calls get()
Get(th) ==
    /\ Objects < MaxObjects
    /\ LET r == GetTimer(timers)
       IN  /\ timers' = r.timers
           /\ got' = [got EXCEPT ![th] = Append(@, r.ret)]
           /\ last' = Call("get", "ok", NONE)
    /\ UNCHANGED <<heap, handles, now, merges>>

\* The caller assigns timer.active_instance = None.  No statement of the
\* module assigns active_instance before start, stop and add_sub_timer read
\* it, so this assignment by the caller is the only way a timer leaves the
\* state __init__ built.
AssignActiveNone(t) ==
    /\ t \in TimerIds
    /\ timers[t].active_instance = UNSET
    /\ timers' = [timers EXCEPT ![t].active_instance = NONE]
    /\ last' = Call("assign", "ok", NONE)
    /\ UNCHANGED <<heap, handles, got, now, merges>>

\* timer.start(name); the clock is read when the span is constructed
Start(t, name) ==
    /\ t \in TimerIds
    /\ \E d \in ClockSteps :
         LET r == TimerStart(timers, heap, t, name, now + d)
         IN  /\ r.outcome = "ok" => Objects < MaxObjects
             /\ timers' = r.timers
             /\ heap' = r.heap
             /\ handles' = IF r.outcome = "ok"
                           THEN Append(handles, CloseableInit(t, name))
                           ELSE handles
             /\ now' = IF r.outcome = "ok" THEN now + d ELSE now
             /\ last' = Call("start", r.outcome, r.span)
    /\ UNCHANGED <<got, merges>>

\* timer.stop(name); the clock is read when a span is stopped
Stop(t, name) ==
    /\ t \in TimerIds
    /\ \E d \in ClockSteps :
         LET r == TimerStop(timers, heap, t, name, now + d)
         IN  /\ timers' = r.timers
             /\ heap' = r.heap
             /\ now' = IF r.span # NONE THEN now + d ELSE now
             /\ last' = Call("stop", r.outcome, r.span)
    /\ UNCHANGED <<handles, got, merges>>

\* timer.add_sub_timer(sub)
AddSubTimer(t, sub) ==
    /\ t \in TimerIds
    /\ sub \in TimerIds
    /\ LET r == TimerAddSubTimer(timers, heap, t, sub)
       IN  /\ r.timers # timers => merges < MaxMerges
           /\ timers' = r.timers
           /\ heap' = r.heap
           /\ merges' = IF r.timers # timers THEN merges + 1 ELSE merges
           /\ last' = Call("add_sub_timer", r.outcome, NONE)
    /\ UNCHANGED <<handles, got, now>>

\* handle.__exit__(...) called on the handle h, by hand
Exit(h) ==
    /\ h \in HandleIds
    /\ \E d \in ClockSteps :
         LET r == CloseableExit(timers, heap, handles, h, now + d)
         IN  /\ timers' = r.timers
             /\ heap' = r.heap
             /\ now' = IF r.span # NONE THEN now + d ELSE now
             /\ last' = Call("exit", r.outcome, r.span)
    /\ UNCHANGED <<handles, got, merges>>

\* "with timer.start(name): <body>".  start runs first; when it returns a
\* handle the with statement fails to enter it, so neither the body nor
\* __exit__ runs and the error leaves the statement.
With(t, name) ==
    /\ t \in TimerIds
    /\ \E d \in ClockSteps, e \in CloseableEnter :
         LET r == TimerStart(timers, heap, t, name, now + d)
         IN  /\ r.outcome = "ok" => Objects < MaxObjects
             /\ timers' = r.timers
             /\ heap' = r.heap
             /\ handles' = IF r.outcome = "ok"
                           THEN Append(handles, CloseableInit(t, name))
                           ELSE handles
             /\ now' = IF r.outcome = "ok" THEN now + d ELSE now
             /\ last' = Call("with", IF r.outcome = "ok" THEN e ELSE r.outcome,
                             r.span)
    /\ UNCHANGED <<got, merges>>

Next ==
    \/ Construct
    \/ \E t \in ObjectIds : AssignActiveNone(t)
    \/ \E t \in ObjectIds, name \in Names : Start(t, name)
    \/ \E t \in ObjectIds, name \in Names : Stop(t, name)
    \/ \E t \in ObjectIds, sub \in ObjectIds : AddSubTimer(t, sub)
    \/ \E h \in ObjectIds : Exit(h)
    \/ \E t \in ObjectIds, name \in Names : With(t, name)

\* The timers and their handles, built by the constructor.
Spec == Init /\ [][Next]_vars

\* The same, with the timers also obtained through get() by the threads.
NextGet ==
    \/ Next
    \/ \E th \in Threads : Get(th)

SpecGet == Init /\ [][NextGet]_vars

\* Threads that work on their own timers only: every timer comes from a
\* thread's call of get(), and only start, stop and the handles act on it;
\* no timer is merged into another.
NextOwn ==
    \/ \E th \in Threads : Get(th)
    \/ \E t \in ObjectIds : AssignActiveNone(t)
    \/ \E t \in ObjectIds, name \in Names : Start(t, name)
    \/ \E t \in ObjectIds, name \in Names : Stop(t, name)
    \/ \E h \in ObjectIds : Exit(h)
    \/ \E t \in ObjectIds, name \in Names : With(t, name)

SpecOwn == Init /\ [][NextOwn]_vars

\* timer.to_string()
ToStringCall(t) ==
    /\ t \in TimerIds
    /\ LET r == TimerToString(timers, heap, t)
       IN  last' = Rendered("to_string", r.outcome,
                            IF r.outcome = "ok" THEN r.text ELSE "")
    /\ UNCHANGED <<timers, heap, handles, got, now, merges>>

\* timer.print(): print(self.to_string())
PrintCall(t) ==
    /\ t \in TimerIds
    /\ LET r == TimerToString(timers, heap, t)
       IN  last' = Rendered("print", r.outcome,
                            IF r.outcome = "ok" THEN r.text \o "\n" ELSE "")
    /\ UNCHANGED <<timers, heap, handles, got, now, merges>>

\* The whole module: the timers, get() and the rendering calls.
NextRender ==
    \/ NextGet
    \/ \E t \in ObjectIds : ToStringCall(t)
    \/ \E t \in ObjectIds : PrintCall(t)

SpecRender == Init /\ [][NextRender]_vars

\* ------------------------------------------------------------------ claims
\* A timer has an active span when active_instance refers to a span; it has
\* none when the attribute holds None and when it was never assigned.
HasActive(t) == timers[t].active_instance \notin {UNSET, NONE}
NoActive(t)  == ~HasActive(t)

\* the calls that run start(name) and stop(name) on timer t
StartCall(t, name) == Start(t, name) \/ With(t, name)
StopCall(t, name) ==
    \/ Stop(t, name)
    \/ \E h \in HandleIds : /\ handles[h] = CloseableInit(t, name)
                            /\ Exit(h)

\* the instances lists of all timers, and the children of all spans
Roots(ts)    == [t \in DOMAIN ts |-> ts[t].instances]
Children(hp) == [x \in DOMAIN hp |-> <<hp[x].children, hp[x].child_instances>>]

\* C1: start(name) never raises, in whatever state the timer is: every
\* start call ends normally and creates a span.
C1_StartNeverRaises ==
    last.op = "start" => (last.outcome = "ok" /\ last.span # NONE)

\* C2: start(name) on a timer with no active span creates a span with no
\* parent, appends it at the end of the timer's roots and makes it the
\* timer's active span.
C2_StartAsRoot ==
    [][\A t \in TimerIds, name \in Names :
         (StartCall(t, name) /\ NoActive(t)) =>
            LET new == Len(heap) + 1
            IN  /\ Len(heap') = new
                /\ heap'[new].name = name
                /\ heap'[new].parent_instance = NONE
                /\ timers'[t].instances = Append(timers[t].instances, new)
                /\ timers'[t].active_instance = new]_vars

\* C3: start(name) on a timer whose active span is S creates a span with
\* parent S, appends it at the end of S's children, leaves the timer's roots
\* alone and makes the new span the timer's active span.
C3_StartAsChild ==
    [][\A t \in TimerIds, name \in Names :
         (StartCall(t, name) /\ HasActive(t)) =>
            LET S   == timers[t].active_instance
                new == Len(heap) + 1
            IN  /\ Len(heap') = new
                /\ heap'[new].parent_instance = S
                /\ heap'[S].children = "list"
                /\ heap'[S].child_instances = Append(heap[S].child_instances, new)
                /\ timers'[t].instances = timers[t].instances
                /\ timers'[t].active_instance = new]_vars

\* C4: stop(name) with the active span's name equal to name records the
\* span's stop_time (the clock's reading) and makes the span's parent the
\* active span (none for a root); no timer's roots and no span's children
\* change.
C4_StopMatching ==
    [][\A t \in TimerIds, name \in Names :
         (/\ StopCall(t, name)
          /\ HasActive(t)
          /\ heap[timers[t].active_instance].name = name) =>
            LET S == timers[t].active_instance
            IN  /\ last'.outcome = "ok"
                /\ heap[S].stop_time = UNSET
                /\ heap'[S].stop_time = now'
                /\ now' \in {now + d : d \in ClockSteps}
                /\ timers'[t].active_instance = heap[S].parent_instance
                /\ Roots(timers') = Roots(timers)
                /\ Children(heap') = Children(heap)]_vars

\* a stop call has stopped a root: the span has its stop time and its
\* timer has no active span any more
C4_Witness ==
    /\ last.op \in {"stop", "exit"}
    /\ last.outcome = "ok"
    /\ last.span # NONE
    /\ heap[last.span].stop_time # UNSET
    /\ heap[last.span].parent_instance = NONE
    /\ \E t \in TimerIds : /\ last.span \in {timers[t].instances[i] :
                                              i \in DOMAIN timers[t].instances}
                           /\ timers[t].active_instance = NONE

\* C5: stop(name) while the active span has another name fails with the
\* ValueError "Cannot stop a timer that is not the active one." and changes
\* nothing: same active span, no stop_time recorded, same roots and children.
C5_StopMismatch ==
    [][\A t \in TimerIds, name \in Names :
         (/\ StopCall(t, name)
          /\ HasActive(t)
          /\ heap[timers[t].active_instance].name # name) =>
            /\ last'.outcome = "ValueError"
            /\ last'.span = NONE
            /\ timers' = timers
            /\ heap' = heap]_vars

\* a stop call was rejected, and the span that is active has no stop time
C5_Witness ==
    /\ last.op \in {"stop", "exit"}
    /\ last.outcome = "ValueError"
    /\ \E t \in TimerIds : /\ HasActive(t)
                           /\ heap[timers[t].active_instance].stop_time = UNSET

\* C6: stop(name) on a timer with no active span, a timer just constructed
\* included, returns normally for every name and changes nothing.
C6_StopNothingActive ==
    [][\A t \in TimerIds, name \in Names :
         (Stop(t, name) /\ NoActive(t)) =>
            /\ last'.outcome = "ok"
            /\ timers' = timers
            /\ heap' = heap]_vars

\* C7: T1.add_sub_timer(T2) while T1 has the active span P appends T2's
\* roots, in order, to P's children, makes P the parent of each of them,
\* and leaves T1's roots and T1's active span alone.  (Stated for another
\* timer T2 that has roots, all of them stopped, as add_sub_timer asks.)
C7_MergeUnderActive ==
    [][\A t1 \in TimerIds, t2 \in TimerIds :
         (/\ AddSubTimer(t1, t2)
          /\ HasActive(t1)
          /\ t1 # t2
          /\ NoActive(t2)
          /\ timers[t2].instances # <<>>
          /\ \A i \in DOMAIN timers[t2].instances :
                 heap[timers[t2].instances[i]].stop_time # UNSET) =>
            LET P == timers[t1].active_instance
            IN  /\ last'.outcome = "ok"
                /\ heap'[P].child_instances =
                       heap[P].child_instances \o timers[t2].instances
                /\ \A i \in DOMAIN timers[t2].instances :
                       heap'[timers[t2].instances[i]].parent_instance = P
                /\ timers'[t1].instances = timers[t1].instances
                /\ timers'[t1].active_instance = P]_vars

\* C8: T1.add_sub_timer(T2) while T1 has no active span leaves T1's roots
\* equal to its previous roots followed by T2's roots in T2's order, and
\* every merged root still has no parent.
C8_MergeAsRoots ==
    [][\A t1 \in TimerIds, t2 \in TimerIds :
         (AddSubTimer(t1, t2) /\ NoActive(t1)) =>
            /\ last'.outcome = "ok"
            /\ timers'[t1].instances =
                   timers[t1].instances \o timers[t2].instances
            /\ \A i \in DOMAIN timers[t2].instances :
                   heap'[timers[t2].instances[i]].parent_instance = NONE]_vars

\* C9: the handle start(name) returns stops its span exactly once: when the
\* scope of "with timer.start(name)" is left the span it started has a stop
\* time, and a release of a handle stops no span but the one its own start
\* call created (handle h and span h are built by the same start call).
C9_ScopedHandle ==
    [][/\ \A t \in TimerIds, name \in Names :
            (With(t, name) /\ Len(heap') = Len(heap) + 1) =>
                heap'[Len(heap')].stop_time # UNSET
       /\ \A h \in HandleIds :
            (Exit(h) /\ last'.span # NONE) => last'.span = h]_vars

\* C10: get() supplies one timer per thread: every call of a thread returns
\* the timer its first call returned, and two threads never get the same one.
C10_OneTimerPerThread ==
    /\ \A th \in Threads : \A i, j \in DOMAIN got[th] : got[th][i] = got[th][j]
    /\ \A th1, th2 \in Threads : \A i \in DOMAIN got[th1], j \in DOMAIN got[th2] :
           th1 # th2 => got[th1][i] # got[th2][j]

\* ------------------------------------------------- claims C11 to C19
\* the spans a timer reaches: its roots and, repeatedly, their children
Kids(hp, x) == {hp[x].child_instances[i] : i \in DOMAIN hp[x].child_instances}
RootSet(ts, t) == {ts[t].instances[i] : i \in DOMAIN ts[t].instances}

RECURSIVE Closure(_, _, _)
Closure(hp, S, fuel) ==
    LET N == S \cup UNION {Kids(hp, x) : x \in S}
    IN  IF fuel = 0 \/ N = S THEN S ELSE Closure(hp, N, fuel - 1)

Reach(ts, hp, t) == Closure(hp, RootSet(ts, t), Len(hp))

\* every span the timer reaches has been stopped
Finished(ts, hp, t) == \A x \in Reach(ts, hp, t) : hp[x].stop_time # UNSET

\* C11: no call of a well-nested run raises: get(), start (scoped or not),
\* a stop that names the active span or finds none active, a merge of
\* another timer whose spans are all stopped, and printing or rendering a
\* timer whose spans are all stopped, as in the run of the test.
C11_WellNestedRunsClean ==
    [][/\ \A th \in Threads : Get(th) => last'.outcome = "ok"
       /\ \A t \in TimerIds, name \in Names :
            StartCall(t, name) => last'.outcome = "ok"
       /\ \A t \in TimerIds, name \in Names :
            (/\ StopCall(t, name)
             /\ HasActive(t) => heap[timers[t].active_instance].name = name)
                => last'.outcome = "ok"
       /\ \A t1 \in TimerIds, t2 \in TimerIds :
            (AddSubTimer(t1, t2) /\ NoActive(t2) /\ Finished(timers, heap, t2))
                => last'.outcome = "ok"
       /\ \A t \in TimerIds :
            ((ToStringCall(t) \/ PrintCall(t)) /\ Finished(timers, heap, t))
                => last'.outcome = "ok"]_vars

\* The rendering the format describes: one line per span, depth-first, the
\* roots in order, each span followed by its children in stored order; a
\* line is depth * 2 spaces, the name, ": ", stop_time - start_time, newline.
RECURSIVE RenderLines(_, _, _)
RenderLines(hp, xs, depth) ==
    IF xs = <<>> THEN ""
    ELSE LET x == Head(xs)
         IN  Spaces(depth * 2) \o hp[x].name \o ": "
                \o ToString(hp[x].stop_time - hp[x].start_time) \o "\n"
                \o RenderLines(hp, hp[x].child_instances, depth + 1)
                \o RenderLines(hp, Tail(xs), depth)

\* C12: to_string() of a timer whose spans are all stopped returns the
\* rendering of the format; a stopped root that never had a child renders
\* as its single line.
C12_RenderFormat ==
    [][\A t \in TimerIds :
         (ToStringCall(t) /\ Finished(timers, heap, t)) =>
            /\ last'.outcome = "ok"
            /\ last'.text = RenderLines(heap, timers[t].instances, 0)]_vars

\* the span that is active on timer t, and the duration of a stopped span
Active(t)       == timers[t].active_instance
Duration(hp, x) == hp[x].stop_time - hp[x].start_time

\* C13: start A, start B while A is active, stop B, stop A, on a timer with
\* no active span, builds the tree A { B }: the start of B under the root A
\* makes B the only child of A, with parent A and no children of its own;
\* the stop of B makes A active again; the stop of A leaves no span active;
\* and A.duration >= B.duration >= 0.
C13_BalancedNesting ==
    [][\A t \in TimerIds, name \in Names :
         /\ (/\ StartCall(t, name)
             /\ HasActive(t)
             /\ heap[Active(t)].parent_instance = NONE
             /\ heap[Active(t)].child_instances = <<>>) =>
                LET A == Active(t)
                    B == Len(heap) + 1
                IN  /\ Len(heap') = B
                    /\ heap'[B].parent_instance = A
                    /\ heap'[B].child_instances = <<>>
                    /\ heap'[A].child_instances = <<B>>
                    /\ timers'[t].instances = timers[t].instances
                    /\ timers'[t].active_instance = B
         /\ (/\ StopCall(t, name)
             /\ HasActive(t)
             /\ heap[Active(t)].name = name
             /\ heap[Active(t)].parent_instance # NONE) =>
                LET B == Active(t)
                IN  /\ timers'[t].active_instance = heap[B].parent_instance
                    /\ Duration(heap', B) >= 0
         /\ (/\ StopCall(t, name)
             /\ HasActive(t)
             /\ heap[Active(t)].name = name
             /\ heap[Active(t)].parent_instance = NONE) =>
                LET A == Active(t)
                IN  /\ timers'[t].active_instance = NONE
                    /\ \A B \in Kids(heap', A) :
                          /\ heap'[B].stop_time # UNSET
                          /\ Duration(heap', A) >= Duration(heap', B)
                          /\ Duration(heap', B) >= 0]_vars

\* xs is an initial part of ys
IsPrefix(xs, ys) == Len(xs) <= Len(ys) /\ SubSeq(ys, 1, Len(xs)) = xs

\* C14: a span's children are kept in the order they were started: a start
\* while A is active puts the new span at the end of A's children, so B and
\* then C started under A give [B, C]; and no start, stop or merge reorders
\* or deduplicates a children list (each list only grows at its end).
C14_SiblingOrder ==
    [][/\ \A t \in TimerIds, name \in Names :
            (StartCall(t, name) /\ HasActive(t)) =>
                /\ Len(heap') = Len(heap) + 1
                /\ heap'[Active(t)].child_instances =
                       heap[Active(t)].child_instances \o <<Len(heap')>>
       /\ \A x \in DOMAIN heap :
            IsPrefix(heap[x].child_instances, heap'[x].child_instances)]_vars

\* C15: add_sub_timer(other) changes the active span of no timer, whether
\* the receiver has an active span or not, and starts and stops nothing: no
\* span is created and no span's start_time or stop_time changes.
C15_MergeKeepsActive ==
    [][\A t1 \in TimerIds, t2 \in TimerIds :
         AddSubTimer(t1, t2) =>
            /\ \A t \in TimerIds :
                  timers'[t].active_instance = timers[t].active_instance
            /\ Len(heap') = Len(heap)
            /\ \A x \in DOMAIN heap :
                  /\ heap'[x].start_time = heap[x].start_time
                  /\ heap'[x].stop_time = heap[x].stop_time]_vars

\* a merge has moved a span that is still active on its own timer, and not
\* yet stopped, into the roots of a receiver that has no active span
C15_Witness ==
    /\ last.op = "add_sub_timer"
    /\ last.outcome = "ok"
    /\ \E t1 \in TimerIds, t2 \in TimerIds :
          /\ t1 # t2
          /\ timers[t1].active_instance = NONE
          /\ HasActive(t2)
          /\ heap[Active(t2)].stop_time = UNSET
          /\ Active(t2) \in RootSet(timers, t1)

\* the receiver's forest: its roots, and every span they reach with all the
\* span holds
Forest(ts, hp, t) ==
    <<ts[t].instances, [x \in Reach(ts, hp, t) |-> hp[x]]>>

\* r holds one of o's roots, as after r.add_sub_timer(o)
HoldsRootOf(r, o) == RootSet(timers, r) \cap RootSet(timers, o) # {}

\* C16 as stated: after r.add_sub_timer(o), no start and no stop on o
\* changes r's span forest or what r renders.
C16_NoLiveMerge ==
    [][\A o \in TimerIds, name \in Names :
         (StartCall(o, name) \/ StopCall(o, name)) =>
            \A r \in TimerIds \ {o} :
               HoldsRootOf(r, o) =>
                  /\ Forest(timers', heap', r) = Forest(timers, heap, r)
                  /\ TimerToString(timers', heap', r)
                        = TimerToString(timers, heap, r)]_vars

\* a step leaves the roots of r as they were: the same list, and the same
\* name, start_time and stop_time in each root
RootsKept(r) ==
    /\ timers'[r].instances = timers[r].instances
    /\ \A x \in RootSet(timers, r) :
          /\ heap'[x].name = heap[x].name
          /\ heap'[x].start_time = heap[x].start_time
          /\ heap'[x].stop_time = heap[x].stop_time

\* C16, amended: add_sub_timer copies the list of roots, not the spans.  No
\* start and no stop on o changes the roots list of another timer r, nor
\* the name, the start_time or an already recorded stop_time of a span
\* among r's roots; the one thing that does change there is the stop_time
\* of a merged span still in progress, which a stop on o records in the
\* span both timers hold.
C16_SnapshotOfRoots ==
    [][\A r \in TimerIds :
         \/ RootsKept(r)
         \/ \A o \in TimerIds \ {r}, name \in Names :
               (StartCall(o, name) \/ StopCall(o, name)) =>
                  /\ timers'[r].instances = timers[r].instances
                  /\ \A x \in RootSet(timers, r) :
                        /\ heap'[x].name = heap[x].name
                        /\ heap'[x].start_time = heap[x].start_time
                        /\ heap'[x].stop_time # heap[x].stop_time =>
                              /\ StopCall(o, name)
                              /\ x = Active(o)
                              /\ heap[x].stop_time = UNSET
                              /\ heap'[x].stop_time = now']_vars

\* after a merge, the merged timer has started a new root, and the timer
\* that holds its earlier root does not hold the new one
C16_Witness ==
    /\ last.op = "start"
    /\ last.outcome = "ok"
    /\ \E r \in TimerIds, o \in TimerIds :
          /\ r # o
          /\ HoldsRootOf(r, o)
          /\ last.span \in RootSet(timers, o)
          /\ last.span \notin RootSet(timers, r)

\* the timers thread th obtained from get()
TimersOf(th) == {got[th][i] : i \in DOMAIN got[th]}

\* a step leaves timer u alone: its roots, its active span and every span
\* it reaches are what they were
Untouched(u) ==
    /\ timers'[u] = timers[u]
    /\ \A x \in Reach(timers, heap, u) : heap'[x] = heap[x]

\* C17: timers share no mutable state.  With every thread working on its
\* own timers, no two timers reach a common span, and a start or a stop on
\* one timer, however the threads' calls interleave, changes neither the
\* roots nor the active span of another timer nor any span another timer
\* reaches: a timer that a step does change is never a timer other than
\* the one start or stop was called on.
C17_NoSharedState ==
    /\ [](\A t \in TimerIds, u \in TimerIds :
            t # u => Reach(timers, heap, t) \cap Reach(timers, heap, u) = {})
    /\ [][\A u \in TimerIds :
            \/ Untouched(u)
            \/ \A t \in TimerIds \ {u}, name \in Names :
                  ~(StartCall(t, name) \/ StopCall(t, name))]_vars

\* both threads hold a timer of their own with a span on it, one of them
\* with a span still active, and a start or stop has just succeeded
C17_Witness ==
    /\ last.op \in {"start", "stop"}
    /\ last.outcome = "ok"
    /\ last.span # NONE
    /\ \E t \in TimersOf("main"), u \in TimersOf("worker") :
          /\ timers[t].instances # <<>>
          /\ timers[u].instances # <<>>
          /\ HasActive(t) \/ HasActive(u)

\* the spans to_string visits, in the order it visits them: each root in
\* turn, a span before its children (fuel bounds the depth of the descent)
RECURSIVE Traversal(_, _, _)
Traversal(hp, xs, fuel) ==
    IF xs = <<>> \/ fuel = 0 THEN <<>>
    ELSE <<Head(xs)>>
            \o Traversal(hp, hp[Head(xs)].child_instances, fuel - 1)
            \o Traversal(hp, Tail(xs), fuel)

\* the spans below x
Descendants(hp, x) == Closure(hp, Kids(hp, x), Len(hp))

\* C18: whatever start, stop and add_sub_timer calls were made, a timer
\* merged into itself included, the spans a timer reaches form a forest: no
\* span is below itself, and the traversal of the timer meets no span twice.
C18_Forest ==
    \A t \in TimerIds :
       LET visit == Traversal(heap, timers[t].instances, Len(heap) + 1)
       IN  /\ \A x \in Reach(timers, heap, t) : x \notin Descendants(heap, x)
           /\ \A i \in DOMAIN visit, j \in DOMAIN visit :
                 i # j => visit[i] # visit[j]

\* the spans started on timer t: start builds span x and handle x together,
\* and the handle keeps the timer it was started on
StartedOn(t) == {x \in DOMAIN heap : handles[x].code_block_timer = t}

\* span x and the spans above it, following parent_instance
RECURSIVE Chain(_, _)
Chain(hp, x) ==
    IF x \in {NONE, UNSET} THEN {} ELSE {x} \cup Chain(hp, hp[x].parent_instance)

\* C19: on a timer driven by its own start and stop calls only, the spans
\* started on it that have no stop_time are exactly the active span and the
\* spans above it (none when no span is active); a stop_time, once
\* recorded, never changes, and a stopped span is never the active span
\* again.
C19_OpenSpansAreTheActiveChain ==
    /\ [](\A t \in TimerIds :
            {x \in StartedOn(t) : heap[x].stop_time = UNSET}
               = Chain(heap, timers[t].active_instance))
    /\ [][\A x \in DOMAIN heap :
            heap[x].stop_time # UNSET =>
               /\ heap'[x].stop_time = heap[x].stop_time
               /\ \A t \in TimerIds : timers'[t].active_instance # x]_vars

\* a timer has stopped one of its spans and has since started another, which
\* is active and not stopped
C19_Witness ==
    /\ last.op \in {"start", "with"}
    /\ last.span # NONE
    /\ \E t \in TimerIds :
          /\ Active(t) = last.span
          /\ heap[last.span].stop_time = UNSET
          /\ \E x \in StartedOn(t) : heap[x].stop_time # UNSET
====
